---- MODULE Spec2Model ----
(***************************************************************************)
(* Model of components/shooter.py: the Shooter component of a dual         *)
(* flywheel launcher.  The component's fields, the three collaborators it  *)
(* talks to (two motor controllers, one solenoid) and the robot's supply   *)
(* voltage are the state; every method of the class is one action.         *)
(*                                                                         *)
(* Python floats are modelled by exact rationals [n |-> num, d |-> den]    *)
(* in lowest terms with d > 0, so that interpolation, the unit conversion  *)
(* and the tolerance comparison are computed, not assumed.                 *)
(***************************************************************************)
EXTENDS Integers, Sequences, FiniteSets

VARIABLES inject, in_range, centre_target, outer_target,
          piston, centre_sensor, outer_sensor,
          calls, lastOp, range_status, fires, pulses, fired, executed

vars == <<inject, in_range, centre_target, outer_target,
          piston, centre_sensor, outer_sensor,
          calls, lastOp, range_status, fires, pulses, fired, executed>>

(* the fields of the Shooter object itself *)
fields == <<inject, in_range, centre_target, outer_target>>

----------------------------------------------------------------------------
(* Exact rational arithmetic standing for the float arithmetic of Python.  *)

IAbs(i) == IF i < 0 THEN -i ELSE i

RECURSIVE GCD(_, _)
GCD(a, b) == IF b = 0 THEN a ELSE GCD(b, a % b)

Frac(num, den) ==
    LET s == IF den < 0 THEN -1 ELSE 1
        g == GCD(IAbs(num), IAbs(den))
    IN  [n |-> (s * num) \div g, d |-> (s * den) \div g]

FromInt(i) == [n |-> i, d |-> 1]

FAdd(a, b) == Frac(a.n * b.d + b.n * a.d, a.d * b.d)
FSub(a, b) == Frac(a.n * b.d - b.n * a.d, a.d * b.d)
FMul(a, b) == Frac(a.n * b.n, a.d * b.d)
FDiv(a, b) == Frac(a.n * b.d, a.d * b.n)
FLeq(a, b) == a.n * b.d <= b.n * a.d
FLt(a, b)  == a.n * b.d <  b.n * a.d
FAbs(a)    == [n |-> IAbs(a.n), d |-> a.d]
FSgn(a)    == FromInt(IF a.n > 0 THEN 1 ELSE IF a.n < 0 THEN -1 ELSE 0)

(* Python's builtin max(a, b) and min(a, b): the first argument unless the *)
(* second is strictly greater (smaller).                                   *)
PyMax(a, b) == IF FLt(a, b) THEN b ELSE a
PyMin(a, b) == IF FLt(b, a) THEN b ELSE a

(* stands for "no value" in a record field that holds a rational *)
NoFrac == [n |-> 0, d |-> 0]

----------------------------------------------------------------------------
(* Class constants.                                                        *)

ranges      == <<0, 7, 8, 9, 10, 11>>
centre_rpms == <<0, 880, 1120, 1500, 2150, 2400>>
outer_rpms  == <<5000, 5000, 5000, 5000, 5000, 5000>>

COUNTS_PER_REV == 2048
RPS_TO_CTRE_UNITS == Frac(COUNTS_PER_REV, 10)
CTRE_UNITS_TO_RPS == FDiv(FromInt(1), RPS_TO_CTRE_UNITS)

velocity_tolerance == Frac(5, 100)

(* SimpleMotorFeedforward(kS, kV).calculate(velocity):                     *)
(* kS * sgn(velocity) + kV * velocity                                      *)
ff_calculate(kS, kV, velocity) == FAdd(FMul(kS, FSgn(velocity)), FMul(kV, velocity))
centre_ff_calculator(velocity) == ff_calculate(Frac(158, 1000), Frac(11, 100), velocity)
outer_ff_calculator(velocity)  == ff_calculate(Frac(187, 1000), Frac(11, 100), velocity)

(* numpy.interp(x, xp, fp) for a scalar x and an increasing xp: the        *)
(* boundary sample outside the table, the sample itself at a knot, and     *)
(* slope * (x - xp[j]) + fp[j] between xp[j] and xp[j+1].                  *)
interp(x, xp, fp) ==
    LET last == Len(xp) IN
    IF FLt(FromInt(xp[last]), x) THEN FromInt(fp[last])
    ELSE IF FLt(x, FromInt(xp[1])) THEN FromInt(fp[1])
    ELSE LET j == CHOOSE k \in 1..last :
                     /\ FLeq(FromInt(xp[k]), x)
                     /\ \A m \in 1..last : FLeq(FromInt(xp[m]), x) => m <= k
         IN  IF j = last THEN FromInt(fp[j])
             ELSE IF FromInt(xp[j]) = x THEN FromInt(fp[j])
             ELSE LET slope == FDiv(FromInt(fp[j + 1] - fp[j]),
                                    FromInt(xp[j + 1] - xp[j]))
                  IN  FAdd(FMul(slope, FSub(x, FromInt(xp[j]))), FromInt(fp[j]))

----------------------------------------------------------------------------
(* Inputs the model draws from.                                            *)

(* distances handed to set_range: below, at, between and above the samples *)
Dists == { Frac(-1, 1), Frac(0, 1), Frac(7, 2), Frac(7, 1), Frac(15, 2),
           Frac(8, 1), Frac(21, 2), Frac(11, 1), Frac(12, 1) }

(* supply voltages read by execute, in volts *)
Voltages == {0, 12}

(* raw sensor velocities (counts per 100 ms) reported by the two motors *)
CentreCounts == {0, 194560, 204800, -20480}
OuterCounts  == {0, 1024000}

(* values an operator writes into the tunables centre_target, outer_target *)
OperatorTargets == {-100, 0}

(* cap on the number of fire() calls in one behaviour *)
MaxFires == 2

----------------------------------------------------------------------------
(* Bookkeeping of what each step did.                                      *)

Op(name, dist, voltage, raised) ==
    [op |-> name, dist |-> dist, voltage |-> voltage, raised |-> raised,
     pending |-> inject]

MotorSet(motor, mode, setpoint, demand, ff) ==
    [obj |-> motor, method |-> "set", mode |-> mode, setpoint |-> setpoint,
     demand |-> demand, ff |-> ff]

Call(obj, method) ==
    [obj |-> obj, method |-> method, mode |-> "", setpoint |-> NoFrac,
     demand |-> "", ff |-> NoFrac]

----------------------------------------------------------------------------
(* Feedback methods.                                                       *)

get_centre_velocity == FMul(FromInt(centre_sensor), CTRE_UNITS_TO_RPS)
get_outer_velocity  == FMul(FromInt(outer_sensor), CTRE_UNITS_TO_RPS)

is_at_speed ==
    /\ FLeq(FAbs(FSub(centre_target, get_centre_velocity)),
            FMul(centre_target, velocity_tolerance))
    /\ FLeq(FAbs(FSub(outer_target, get_outer_velocity)),
            FMul(outer_target, velocity_tolerance))

is_firing == piston

is_in_range == in_range

(* readiness that forgets the piston *)
is_ready_ignoring_piston == is_in_range /\ is_at_speed

is_ready == is_in_range /\ is_at_speed /\ ~is_firing

----------------------------------------------------------------------------
(* State after __init__ and setup.                                         *)

Init ==
    /\ inject = FALSE
    /\ in_range = FALSE
    /\ centre_target = FromInt(0)
    /\ outer_target = FromInt(0)
    /\ piston = FALSE
    /\ centre_sensor = 0
    /\ outer_sensor = 0
    /\ calls = <<>>
    /\ lastOp = [op |-> "init", dist |-> NoFrac, voltage |-> 0,
                 raised |-> FALSE, pending |-> FALSE]
    /\ range_status = "none"
    /\ fires = 0
    /\ pulses = 0
    /\ fired = 0
    /\ executed = FALSE

----------------------------------------------------------------------------
(* Methods that change state.                                              *)

on_enable ==
    /\ calls' = << Call("centre_motor", "stopMotor"),
                   Call("outer_motor", "stopMotor") >>
    /\ lastOp' = Op("on_enable", NoFrac, 0, FALSE)
    /\ UNCHANGED <<fields, piston, centre_sensor, outer_sensor,
                   range_status, fires, pulses, fired, executed>>

(* execute with the supply voltage read at its first line.  Dividing by a  *)
(* zero voltage raises ZeroDivisionError before any collaborator is        *)
(* called, and the method is left with the object unchanged.               *)
execute(voltage) ==
    IF voltage = 0
    THEN /\ calls' = <<>>
         /\ lastOp' = Op("execute", NoFrac, voltage, TRUE)
         /\ fired' = 0
         /\ executed' = TRUE
         /\ UNCHANGED <<fields, piston, centre_sensor, outer_sensor,
                        range_status, fires, pulses>>
    ELSE LET centre_feed_forward ==
                 FDiv(centre_ff_calculator(centre_target), FromInt(voltage))
             outer_feed_forward ==
                 FDiv(outer_ff_calculator(outer_target), FromInt(voltage))
             sets == << MotorSet("centre_motor", "Velocity",
                                 FMul(centre_target, RPS_TO_CTRE_UNITS),
                                 "ArbitraryFeedForward", centre_feed_forward),
                        MotorSet("outer_motor", "Velocity",
                                 FMul(outer_target, RPS_TO_CTRE_UNITS),
                                 "ArbitraryFeedForward", outer_feed_forward) >>
         IN  /\ IF inject
                THEN /\ calls' = Append(sets, Call("loading_piston", "startPulse"))
                     /\ piston' = TRUE
                     /\ pulses' = pulses + 1
                     /\ inject' = FALSE
                ELSE /\ calls' = sets
                     /\ UNCHANGED <<piston, pulses, inject>>
             /\ lastOp' = Op("execute", NoFrac, voltage, FALSE)
             /\ fired' = 0
             /\ executed' = TRUE
             /\ UNCHANGED <<in_range, centre_target, outer_target,
                            centre_sensor, outer_sensor, range_status, fires>>

(* the test of set_range's first line: ranges[0] <= dist <= ranges[-1] *)
in_bounds_lower_unchecked(dist) == FLeq(dist, FromInt(ranges[Len(ranges)]))

in_bounds_strict(dist) ==
    /\ FLt(FromInt(ranges[1]), dist)
    /\ FLt(dist, FromInt(ranges[Len(ranges)]))

in_bounds(dist) ==
    /\ FLeq(FromInt(ranges[1]), dist)
    /\ FLeq(dist, FromInt(ranges[Len(ranges)]))

(* min(ranges[-1], max(dist, ranges[0])) *)
clamp(dist) == PyMin(FromInt(ranges[Len(ranges)]), PyMax(dist, FromInt(ranges[1])))

set_range(dist) ==
    LET clamped == IF in_bounds(dist) THEN dist ELSE clamp(dist)
    IN  /\ in_range' = in_bounds(dist)
        /\ centre_target' = interp(clamped, ranges, centre_rpms)
        /\ outer_target' = interp(clamped, ranges, outer_rpms)
        /\ calls' = <<>>
        /\ lastOp' = Op("set_range", dist, 0, FALSE)
        /\ range_status' = IF FLt(dist, FromInt(0)) \/ FLt(FromInt(11), dist)
                           THEN "clamped" ELSE "within"
        /\ UNCHANGED <<inject, piston, centre_sensor, outer_sensor,
                       fires, pulses, fired, executed>>

fire ==
    /\ fires < MaxFires
    /\ inject' = TRUE
    /\ calls' = <<>>
    /\ lastOp' = Op("fire", NoFrac, 0, FALSE)
    /\ fires' = fires + 1
    /\ fired' = fired + 1
    /\ UNCHANGED <<in_range, centre_target, outer_target, piston,
                   centre_sensor, outer_sensor, range_status, pulses, executed>>

----------------------------------------------------------------------------
(* What happens around the component.                                      *)

(* an operator writes one of the two tunables from the console *)
tunable_write(name, value) ==
    /\ IF name = "centre_target"
       THEN centre_target' = FromInt(value) /\ UNCHANGED outer_target
       ELSE outer_target' = FromInt(value) /\ UNCHANGED centre_target
    /\ calls' = <<>>
    /\ lastOp' = Op("tunable_write", NoFrac, 0, FALSE)
    /\ UNCHANGED <<inject, in_range, piston, centre_sensor, outer_sensor,
                   range_status, fires, pulses, fired, executed>>

(* the solenoid's pulse, of the duration given in setup, comes to its end *)
pulse_end ==
    /\ piston
    /\ piston' = FALSE
    /\ calls' = <<>>
    /\ lastOp' = Op("pulse_end", NoFrac, 0, FALSE)
    /\ UNCHANGED <<fields, centre_sensor, outer_sensor,
                   range_status, fires, pulses, fired, executed>>

(* the flywheels change speed: the motors report new sensor velocities *)
sensor_update(c, o) ==
    /\ centre_sensor' = c
    /\ outer_sensor' = o
    /\ calls' = <<>>
    /\ lastOp' = Op("sensor_update", NoFrac, 0, FALSE)
    /\ UNCHANGED <<fields, piston, range_status, fires, pulses, fired, executed>>

Next ==
    \/ on_enable
    \/ \E voltage \in Voltages : execute(voltage)
    \/ \E dist \in Dists : set_range(dist)
    \/ fire
    \/ \E name \in {"centre_target", "outer_target"} :
          \E value \in OperatorTargets : tunable_write(name, value)
    \/ pulse_end
    \/ \E c \in CentreCounts : \E o \in OuterCounts : sensor_update(c, o)

Spec == Init /\ [][Next]_vars

TypeOK ==
    /\ inject \in BOOLEAN
    /\ in_range \in BOOLEAN
    /\ piston \in BOOLEAN
    /\ pulses <= fires
    /\ fires <= MaxFires

----------------------------------------------------------------------------
(* Vocabulary of the properties.                                           *)

(* number of startPulse calls among the collaborator calls cs *)
NumPulses(cs) ==
    Cardinality({i \in DOMAIN cs :
                    cs[i].obj = "loading_piston" /\ cs[i].method = "startPulse"})

(* the set() calls made on one motor among the collaborator calls cs *)
SetsOn(cs, motor) ==
    {i \in DOMAIN cs : cs[i].obj = motor /\ cs[i].method = "set"}

(* |target - measured| <= |target| * 5/100, as the specification words it *)
WithinTolerance(target, measured) ==
    FLeq(FAbs(FSub(target, measured)), FMul(FAbs(target), Frac(5, 100)))

(* the straight line through (x0, y0) and (x1, y1), evaluated at x *)
Lerp(x, x0, x1, y0, y1) ==
    FDiv(FAdd(FMul(FromInt(y0), FSub(FromInt(x1), x)),
              FMul(FromInt(y1), FSub(x, FromInt(x0)))),
         FromInt(x1 - x0))

FirstRange == ranges[1]
LastRange  == ranges[Len(ranges)]
BelowTable(d) == FLt(d, FromInt(FirstRange))
AboveTable(d) == FLt(FromInt(LastRange), d)

----------------------------------------------------------------------------
(* C1: starting with no request pending, fire() followed by one execute()  *)
(* issues exactly one startPulse and leaves the request flag cleared; a    *)
(* further execute() with no fire() in between issues no pulse.            *)
C1_FireExecutePulsesOnce ==
    [][ /\ (lastOp.op = "fire" /\ ~lastOp.pending /\ lastOp'.op = "execute")
            => (NumPulses(calls') = 1 /\ ~inject')
        /\ (lastOp.op = "execute" /\ lastOp'.op = "execute")
            => NumPulses(calls') = 0 ]_vars

(* C2: once a request is latched, the very next execute() issues the pulse *)
(* and clears the request whatever that cycle's inputs and whatever was    *)
(* called in between; nothing but issuing the pulse clears a request.      *)
C2_PendingIsPulsedByNextExecute ==
    [][ /\ (inject /\ lastOp'.op = "execute")
            => (~inject' /\ NumPulses(calls') = 1)
        /\ (inject /\ ~inject') => NumPulses(calls') = 1 ]_vars

(* C3: fire() while a request is pending changes nothing; k >= 1 calls of  *)
(* fire() between two consecutive execute() calls give exactly one pulse;  *)
(* the pulses issued never outnumber the fire() calls.                     *)
C3_RequestsAreNotQueued ==
    [][ /\ (inject /\ lastOp'.op = "fire") => fields' = fields
        /\ (executed /\ fired >= 1 /\ lastOp'.op = "execute")
            => NumPulses(calls') = 1
        /\ pulses' <= fires' ]_vars

(* C4: is_ready() is true exactly when is_in_range() and is_at_speed() are *)
(* true and the piston is not pulsing; it is false whenever the last       *)
(* distance was clamped or none was given yet, a flywheel is off-speed, or *)
(* a pulse is in progress.                                                 *)
C4_ReadyIffAllThree ==
    /\ is_ready <=> (in_range /\ is_at_speed /\ ~piston)
    /\ range_status \in {"clamped", "none"} => ~is_ready
    /\ ~WithinTolerance(centre_target, get_centre_velocity) => ~is_ready
    /\ ~WithinTolerance(outer_target, get_outer_velocity) => ~is_ready
    /\ piston => ~is_ready
    /\ lastOp.op = "init" => ~is_ready

(* the shooter is ready: in range, both flywheels at speed, piston at rest *)
C4_Witness ==
    /\ is_ready
    /\ range_status = "within"
    /\ centre_target = FromInt(1000)
    /\ pulses >= 1

(* C5: set_range(d) with ranges[0] <= d <= ranges[-1], endpoints included, *)
(* sets in_range and sets each target to the linear interpolation between  *)
(* the two samples bracketing d; d = 7.5 gives centre_target 1000.         *)
C5_InBoundsInterpolates ==
    (/\ lastOp.op = "set_range"
     /\ FLeq(FromInt(FirstRange), lastOp.dist)
     /\ FLeq(lastOp.dist, FromInt(LastRange)))
    => /\ in_range
       /\ \E i \in 1..(Len(ranges) - 1) :
             /\ FLeq(FromInt(ranges[i]), lastOp.dist)
             /\ FLeq(lastOp.dist, FromInt(ranges[i + 1]))
       /\ \A i \in 1..(Len(ranges) - 1) :
             (/\ FLeq(FromInt(ranges[i]), lastOp.dist)
              /\ FLeq(lastOp.dist, FromInt(ranges[i + 1])))
             => /\ centre_target = Lerp(lastOp.dist, ranges[i], ranges[i + 1],
                                        centre_rpms[i], centre_rpms[i + 1])
                /\ outer_target = Lerp(lastOp.dist, ranges[i], ranges[i + 1],
                                       outer_rpms[i], outer_rpms[i + 1])
       /\ lastOp.dist = Frac(15, 2) => centre_target = FromInt(1000)
       /\ lastOp.dist = FromInt(0)
            => centre_target = FromInt(0) /\ outer_target = FromInt(5000)

(* set_range(7.5) has run: between the samples 7 -> 880 and 8 -> 1120 *)
C5_Witness ==
    /\ lastOp.op = "set_range"
    /\ lastOp.dist = Frac(15, 2)
    /\ in_range
    /\ centre_target = FromInt(1000)
    /\ outer_target = FromInt(5000)

(* C6: set_range(d) with d below ranges[0] or above ranges[-1] clears      *)
(* in_range and sets both targets to the nearest boundary sample; an       *)
(* in-bounds set_range sets in_range again whatever it was before.         *)
C6_OutOfBoundsClamps ==
    lastOp.op = "set_range"
    => /\ BelowTable(lastOp.dist)
            => /\ ~in_range
               /\ centre_target = FromInt(centre_rpms[1])
               /\ outer_target = FromInt(outer_rpms[1])
       /\ AboveTable(lastOp.dist)
            => /\ ~in_range
               /\ centre_target = FromInt(centre_rpms[Len(centre_rpms)])
               /\ outer_target = FromInt(outer_rpms[Len(outer_rpms)])
       /\ (~BelowTable(lastOp.dist) /\ ~AboveTable(lastOp.dist)) => in_range

(* set_range(12) has run: beyond the last sample 11 -> 2400 *)
C6_Witness ==
    /\ lastOp.op = "set_range"
    /\ lastOp.dist = FromInt(12)
    /\ ~in_range
    /\ centre_target = FromInt(2400)
    /\ outer_target = FromInt(5000)

(* C7: is_at_speed() is true if and only if, for both flywheels,           *)
(* |target - measured| <= |target| * 0.05, for every value the targets can *)
(* hold, negative ones included.                                           *)
C7_AtSpeedIffWithinFivePercent ==
    is_at_speed <=> (/\ WithinTolerance(centre_target, get_centre_velocity)
                     /\ WithinTolerance(outer_target, get_outer_velocity))

(* C8: with a supply voltage of zero execute() does not fail: it sends     *)
(* both velocity commands with a feedforward of zero and completes the     *)
(* fire-request step.                                                      *)
C8_ZeroVoltageHandled ==
    (lastOp.op = "execute" /\ lastOp.voltage = 0)
    => /\ ~lastOp.raised
       /\ Cardinality(SetsOn(calls, "centre_motor")) = 1
       /\ Cardinality(SetsOn(calls, "outer_motor")) = 1
       /\ \A i \in SetsOn(calls, "centre_motor") \cup SetsOn(calls, "outer_motor") :
             calls[i].ff = FromInt(0)
       /\ lastOp.pending => (NumPulses(calls) = 1 /\ ~inject)

(* C9: execute() commands each motor exactly once, in velocity mode, with  *)
(* a feedback setpoint equal to that flywheel's current target passed      *)
(* through unchanged, centre from centre_target and outer from             *)
(* outer_target.  Stated for the cycles that reach the motor commands, so  *)
(* that a violation is one of the setpoint and not of the division by a    *)
(* zero voltage (C8) ahead of them.                                        *)
C9_SetpointIsTargetUnchanged ==
    (lastOp.op = "execute" /\ ~lastOp.raised)
    => /\ Cardinality(SetsOn(calls, "centre_motor")) = 1
       /\ Cardinality(SetsOn(calls, "outer_motor")) = 1
       /\ \A i \in SetsOn(calls, "centre_motor") :
             calls[i].mode = "Velocity" /\ calls[i].setpoint = centre_target
       /\ \A i \in SetsOn(calls, "outer_motor") :
             calls[i].mode = "Velocity" /\ calls[i].setpoint = outer_target

(* C10: fire() changes only the request flag; set_range() changes only     *)
(* in_range and the targets; execute() changes neither in_range nor the    *)
(* targets; on_enable() changes none of them, and a request pending at     *)
(* on_enable() is pulsed by the first execute() after it.                  *)
C10_FrameConditions ==
    [][ /\ lastOp'.op = "fire"
            => UNCHANGED <<in_range, centre_target, outer_target>>
        /\ lastOp'.op = "set_range" => UNCHANGED inject
        /\ lastOp'.op = "execute"
            => UNCHANGED <<in_range, centre_target, outer_target>>
        /\ lastOp'.op = "on_enable" => UNCHANGED fields
        /\ (lastOp.op = "on_enable" /\ inject /\ lastOp'.op = "execute")
            => (NumPulses(calls') = 1 /\ ~inject') ]_vars

====
